---- MODULE Spec2Model ----
(***************************************************************************)
(* Model of the LSP proxy of dart-re-analyzer (src/src/lsp/mod.rs):        *)
(* LspProxy::run with its two reader threads, the two unbounded channels,  *)
(* the select! loop, the background workspace scan and the diagnostics     *)
(* cache behind its mutex.                                                 *)
(***************************************************************************)
EXTENDS Integers, Sequences, FiniteSets, TLC

\* Bounds of the model.
MaxClientMsgs == 2
MaxServerMsgs == 2
MaxFiles == 2

(***************************************************************************)
(* Payload texts.  A payload is a string on the wire; the model keeps what *)
(* serde_json can tell about it: whether it parses, whether its text is    *)
(* the compact form serde_json::to_string would produce, and the fields    *)
(* the proxy looks at.                                                     *)
(***************************************************************************)
NoMethod == "<no method>"
MInitialize == "initialize"
MInitialized == "initialized"
MPublish == "textDocument/publishDiagnostics"
MOther == "window/logMessage"

FileScheme == "file://"

\* A lookup that strips nothing: the URI itself is the key.
StripNothing(uri) == uri

\* str::strip_prefix("file://").unwrap_or(uri)
StripFileScheme(uri) ==
    IF Len(uri) >= Len(FileScheme) /\ SubSeq(uri, 1, Len(FileScheme)) = FileScheme
    THEN SubSeq(uri, Len(FileScheme) + 1, Len(uri))
    ELSE uri

\* A diagnostic as the wrapped server (or the proxy) writes it in a publish message.
LspDiag(line, character, endLine, endCharacter, severity, code, source, message) ==
    [range |-> [start |-> [line |-> line, character |-> character],
                end |-> [line |-> endLine, character |-> endCharacter]],
     severity |-> severity, code |-> code, source |-> source, message |-> message]

ServerDiag == LspDiag(3, 0, 3, 7, 1, "undefined_identifier", "dart", "Undefined name")

\* The JSON value of a payload: the fields LspProxy::run and inject_diagnostics_static read.
JsonValue(method, hasUri, uri, hasArray, diags) ==
    [method |-> method, hasUri |-> hasUri, uri |-> uri, hasArray |-> hasArray, diags |-> diags]

\* A payload text: json says whether serde_json::from_str accepts it, compact whether
\* the text is byte for byte what serde_json::to_string gives for its value.
Text(json, compact, value) == [json |-> json, compact |-> compact, value |-> value]

NullValue == JsonValue(NoMethod, FALSE, "", FALSE, <<>>)
Garbage == Text(FALSE, FALSE, NullValue)

\* serde_json::from_str::<Value>(&content)
FromStrOk(content) == content.json
FromStr(content) == content.value

\* serde_json::to_string(&msg): the compact text of the value.
SerdeToString(value) == Text(TRUE, TRUE, value)

Publish(uri, diags) == JsonValue(MPublish, TRUE, uri, TRUE, diags)

ClientTexts ==
    { Garbage,
      Text(TRUE, FALSE, JsonValue(MInitialized, FALSE, "", FALSE, <<>>)),
      Text(TRUE, TRUE, Publish("file:///a.dart", <<>>)) }

ServerTexts ==
    { Garbage,
      Text(TRUE, TRUE, JsonValue(MInitialized, FALSE, "", FALSE, <<>>)),
      Text(TRUE, FALSE, JsonValue(MOther, FALSE, "", FALSE, <<>>)),
      Text(TRUE, TRUE, Publish("file:///a.dart", <<ServerDiag>>)),
      Text(TRUE, FALSE, Publish("/b.dart", <<>>)),
      Text(TRUE, TRUE, Publish("file:///A.dart", <<>>)),
      Text(TRUE, TRUE, Publish("file://a.dart/", <<ServerDiag>>)),
      Text(TRUE, TRUE, JsonValue(MPublish, TRUE, "file:///a.dart", FALSE, <<>>)) }

(***************************************************************************)
(* Diagnostics (src/src/error.rs) and their conversion.                    *)
(***************************************************************************)
Severities == {"Error", "Warning", "Info"}

\* Option<usize>: <<>> is None, <<n>> is Some(n).
Location(line, column, end_line, end_column) ==
    [line |-> line, column |-> column, end_line |-> end_line, end_column |-> end_column]

Diagnostic(rule_id, message, severity, location) ==
    [rule_id |-> rule_id, message |-> message, severity |-> severity, location |-> location]

\* usize::saturating_sub
SaturatingSub(a, b) == IF a >= b THEN a - b ELSE 0

SeverityCode(severity) ==
    CASE severity = "Error" -> 1
      [] severity = "Warning" -> 2
      [] severity = "Info" -> 3

SourceName == "dart-re-analyzer"

\* A conversion that ends the range where the diagnostic says it ends.
DiagnosticToLspSpanning(diag) ==
    LspDiag(SaturatingSub(diag.location.line, 1),
            SaturatingSub(diag.location.column, 1),
            IF diag.location.end_line # <<>>
            THEN SaturatingSub(diag.location.end_line[1], 1)
            ELSE SaturatingSub(diag.location.line, 1),
            IF diag.location.end_column # <<>>
            THEN SaturatingSub(diag.location.end_column[1], 1)
            ELSE SaturatingSub(diag.location.column, 1) + 1,
            SeverityCode(diag.severity), diag.rule_id, SourceName, diag.message)

\* A conversion that keeps the 1-indexed position.
DiagnosticToLspOneIndexed(diag) ==
    LspDiag(diag.location.line, diag.location.column,
            diag.location.line, diag.location.column + 1,
            SeverityCode(diag.severity), diag.rule_id, SourceName, diag.message)

DiagnosticToLsp(diag) ==
    LspDiag(SaturatingSub(diag.location.line, 1),
            SaturatingSub(diag.location.column, 1),
            SaturatingSub(diag.location.line, 1),
            SaturatingSub(diag.location.column, 1) + 1,
            SeverityCode(diag.severity), diag.rule_id, SourceName, diag.message)

(***************************************************************************)
(* The workspace and the rules.  A rule's check is a function of the path  *)
(* and the content (trait Rule); the content classes below stand for       *)
(* source texts on which the two rules behave differently.                 *)
(***************************************************************************)
AllPaths == <<"/a.dart", "/b.dart", "/c.dart", "/d.dart">>
Contents == {"clean", "violating", "failing"}
Rules == <<"avoid_dynamic", "avoid_print">>

DartFile(path, content) == [path |-> path, content |-> content]

\* Rule::check(&path, &content) -> Result<Vec<Diagnostic>>
RuleCheck(rule, path, content) ==
    CASE content = "clean" -> [ok |-> TRUE, diags |-> <<>>]
      [] content = "violating" /\ rule = "avoid_dynamic" ->
            [ok |-> TRUE,
             diags |-> << Diagnostic(rule, "Avoid dynamic", "Warning",
                                     Location(10, 5, <<10>>, <<12>>)) >>]
      [] content = "violating" /\ rule = "avoid_print" ->
            [ok |-> TRUE,
             diags |-> << Diagnostic(rule, "Avoid print", "Info",
                                     Location(1, 1, <<>>, <<>>)),
                          Diagnostic(rule, "Avoid print", "Error",
                                     Location(0, 0, <<2>>, <<9>>)) >>]
      [] content = "failing" /\ rule = "avoid_dynamic" -> [ok |-> FALSE, diags |-> <<>>]
      [] content = "failing" /\ rule = "avoid_print" ->
            [ok |-> TRUE,
             diags |-> << Diagnostic(rule, "Avoid print", "Info",
                                     Location(2, 3, <<2>>, <<8>>)) >>]

\* What find_dart_files can return on success: the files under the root, in walk order.
FileLists(n) ==
    { [i \in 1..n |-> DartFile(AllPaths[i], c[i])] : c \in [1..n -> Contents] }
Workspaces == UNION { FileLists(n) : n \in 0..MaxFiles }

\* The entries under the root: a source file with its content, or one that
\* std::fs::read_to_string cannot read.
Unreadable == "unreadable"
DiskLists(n) ==
    { [i \in 1..n |-> DartFile(AllPaths[i], c[i])] :
        c \in [1..n -> Contents \cup {Unreadable}] }
Disks == UNION { DiskLists(n) : n \in 0..MaxFiles }

\* DartFile::load(path) is Ok.
LoadOk(entry) == entry.content # Unreadable

\* An enumeration that leaves out the entries it cannot load.
FindDartFilesSkipping(d) ==
    [ok |-> TRUE, files |-> SelectSeq(d, LoadOk)]

\* find_dart_files: files.push(DartFile::load(path)?) for every entry of the walk.
FindDartFiles(d) ==
    IF \A i \in 1..Len(d) : LoadOk(d[i])
    THEN [ok |-> TRUE, files |-> d]
    ELSE [ok |-> FALSE, files |-> <<>>]

\* The inner loop of analyze_workspace_static: every rule on one file, failures skipped.
RECURSIVE FileDiagnostics(_, _)
FileDiagnostics(file, k) ==
    IF k > Len(Rules) THEN <<>>
    ELSE LET r == RuleCheck(Rules[k], file.path, file.content)
         IN (IF r.ok THEN r.diags ELSE <<>>) \o FileDiagnostics(file, k + 1)

(***************************************************************************)
(* The cache: HashMap<String, Vec<Diagnostic>>, a function on its key set. *)
(***************************************************************************)
EmptyMap == [p \in {} |-> <<>>]
MapInsert(map, key, val) ==
    [p \in DOMAIN map \cup {key} |-> IF p = key THEN val ELSE map[p]]

\* A loop body that inserts an entry for every file, with diagnostics or not.
ScanOneFileDense(map, file) == MapInsert(map, file.path, FileDiagnostics(file, 1))

\* A loop body that gives up on a file as soon as one rule fails on it.
ScanOneFileAbortOnFailure(map, file) ==
    IF \E k \in 1..Len(Rules) : ~RuleCheck(Rules[k], file.path, file.content).ok
    THEN map
    ELSE LET file_diagnostics == FileDiagnostics(file, 1)
         IN IF file_diagnostics # <<>>
            THEN MapInsert(map, file.path, file_diagnostics) ELSE map

\* The outer loop body: insert when the file has diagnostics.
ScanOneFile(map, file) ==
    LET file_diagnostics == FileDiagnostics(file, 1)
    IN IF file_diagnostics # <<>> THEN MapInsert(map, file.path, file_diagnostics) ELSE map

\* The map a completed scan of fs leaves in the cache.
RECURSIVE ScanFrom(_, _, _)
ScanFrom(map, fs, i) ==
    IF i > Len(fs) THEN map ELSE ScanFrom(ScanOneFile(map, fs[i]), fs, i + 1)
ScanResult(fs) == ScanFrom(EmptyMap, fs, 1)

(***************************************************************************)
(* inject_diagnostics_static, after the lock is held.                      *)
(***************************************************************************)
NeedsCache(msg) == msg.method = MPublish /\ msg.hasUri

ConvertAll(ds) == [i \in 1..Len(ds) |-> DiagnosticToLsp(ds[i])]

\* A merge that replaces the incoming entries by the cached ones.
InjectReplace(msg, map) ==
    IF NeedsCache(msg)
    THEN LET file_path == StripFileScheme(msg.uri)
         IN IF file_path \in DOMAIN map /\ msg.hasArray
            THEN [msg EXCEPT !.diags = ConvertAll(map[file_path])]
            ELSE msg
    ELSE msg

InjectDiagnostics(msg, map) ==
    IF NeedsCache(msg)
    THEN LET file_path == StripFileScheme(msg.uri)
         IN IF file_path \in DOMAIN map /\ msg.hasArray
            THEN [msg EXCEPT !.diags = @ \o ConvertAll(map[file_path])]
            ELSE msg
    ELSE msg

(***************************************************************************)
(* The framer: read_message and write_message over a byte stream.  A       *)
(* stream is a string with one character for each byte; "^" and "~" stand  *)
(* for the lead byte and the continuation byte of one two-byte character.  *)
(***************************************************************************)
MaxFrames == 2
MaxHeaderLines == 2

Lead == "^"
Continuation == "~"
Byte(s, i) == SubSeq(s, i, i)
From(s, i) == SubSeq(s, i, Len(s))

\* The bytes are the encoding of a string: every lead byte has its continuation byte.
Utf8Valid(s) ==
    \A i \in 1..Len(s) :
        /\ Byte(s, i) = Lead => (i < Len(s) /\ Byte(s, i + 1) = Continuation)
        /\ Byte(s, i) = Continuation => (i > 1 /\ Byte(s, i - 1) = Lead)

\* The length of a payload counted in characters.
CharsLen(content) == Cardinality({ i \in 1..Len(content) : Byte(content, i) # Continuation })

\* str::len(): the length in bytes.
ContentLen(content) == Len(content)

\* The Display of a usize.
DigitChars == << "0", "1", "2", "3", "4", "5", "6", "7", "8", "9" >>
RECURSIVE ToDecimal(_)
ToDecimal(n) ==
    IF n < 10 THEN DigitChars[n + 1]
    ELSE ToDecimal(n \div 10) \o DigitChars[(n % 10) + 1]

\* write!(writer, "Content-Length: {}\r\n\r\n{}", content.len(), content)
WriteMessage(content) ==
    "Content-Length: " \o ToDecimal(ContentLen(content)) \o "\r\n\r\n" \o content

\* BufRead::read_line: up to and with the first "\n", or all that is left.
NewlineAt(s) ==
    LET at == { i \in 1..Len(s) : Byte(s, i) = "\n" }
    IN IF at = {} THEN 0 ELSE CHOOSE i \in at : \A j \in at : i <= j
ReadLine(s) ==
    IF NewlineAt(s) = 0
    THEN [line |-> s, rest |-> ""]
    ELSE [line |-> SubSeq(s, 1, NewlineAt(s)), rest |-> From(s, NewlineAt(s) + 1)]

\* str::trim
IsWhitespace(c) == c \in {" ", "\t", "\r", "\n"}
Trim(s) ==
    LET black == { i \in 1..Len(s) : ~IsWhitespace(Byte(s, i)) }
    IN IF black = {} THEN ""
       ELSE SubSeq(s, CHOOSE i \in black : \A j \in black : i <= j,
                      CHOOSE i \in black : \A j \in black : i >= j)

\* str::strip_prefix
StripPrefix(s, prefix) ==
    IF Len(s) >= Len(prefix) /\ SubSeq(s, 1, Len(prefix)) = prefix
    THEN << From(s, Len(prefix) + 1) >>
    ELSE <<>>

\* <usize as FromStr>: an optional "+" and one digit or more.
IsDigit(c) == \E d \in 1..10 : DigitChars[d] = c
DigitValue(c) == (CHOOSE d \in 1..10 : DigitChars[d] = c) - 1
RECURSIVE DigitsValue(_, _)
DigitsValue(s, acc) ==
    IF s = "" THEN acc
    ELSE DigitsValue(From(s, 2), 10 * acc + DigitValue(Byte(s, 1)))
Unsigned(s) == IF Len(s) > 1 /\ Byte(s, 1) = "+" THEN From(s, 2) ELSE s
AllDigits(s) == s # "" /\ \A i \in 1..Len(s) : IsDigit(Byte(s, i))

\* A parse that reads whatever is not a number as 0.
ParseUsizeLenient(s) ==
    [ok |-> TRUE, value |-> IF AllDigits(Unsigned(s)) THEN DigitsValue(Unsigned(s), 0) ELSE 0]

ParseUsize(s) ==
    IF AllDigits(Unsigned(s))
    THEN [ok |-> TRUE, value |-> DigitsValue(Unsigned(s), 0)]
    ELSE [ok |-> FALSE, value |-> 0]

\* A read that returns the bytes there are when the stream ends early.
ReadAvailable(s, n) ==
    IF Len(s) >= n
    THEN [ok |-> TRUE, bytes |-> SubSeq(s, 1, n), rest |-> From(s, n + 1)]
    ELSE [ok |-> TRUE, bytes |-> s, rest |-> ""]

\* Read::read_exact
ReadExact(s, n) ==
    IF Len(s) >= n
    THEN [ok |-> TRUE, bytes |-> SubSeq(s, 1, n), rest |-> From(s, n + 1)]
    ELSE [ok |-> FALSE, bytes |-> "", rest |-> ""]

\* What read_message returns, with the stream it leaves.
Frame(kind, content_length, content, rest) ==
    [kind |-> kind, content_length |-> content_length, content |-> content, rest |-> rest]

\* The header loop of read_message; content_length is <<>> for None, <<n>> for Some(n).
RECURSIVE ReadHeaders(_, _)
ReadHeaders(s, content_length) ==
    IF Len(ReadLine(s).line) = 0
    THEN Frame("none", 0, "", "")
    ELSE LET rl == ReadLine(s)
             line == Trim(rl.line)
             value == StripPrefix(line, "Content-Length: ")
         IN IF ~Utf8Valid(rl.line) THEN Frame("err", 0, "", rl.rest)
            ELSE IF line = "" THEN Frame("headers", content_length, "", rl.rest)
            ELSE IF value = <<>> THEN ReadHeaders(rl.rest, content_length)
            ELSE IF ParseUsize(value[1]).ok
                 THEN ReadHeaders(rl.rest, << ParseUsize(value[1]).value >>)
                 ELSE Frame("err", 0, "", rl.rest)

ReadMessage(s) ==
    LET h == ReadHeaders(s, <<>>)
    IN IF h.kind # "headers" THEN h
       ELSE IF h.content_length = <<>> THEN Frame("err", 0, "", h.rest)
       ELSE LET n == h.content_length[1]
                content == ReadExact(h.rest, n)
            IN IF ~content.ok THEN Frame("err", 0, "", content.rest)
               ELSE IF ~Utf8Valid(content.bytes) THEN Frame("err", 0, "", content.rest)
               ELSE Frame("msg", n, content.bytes, content.rest)

\* The payloads handed to write_message.
Payloads == { "", "{}", "^~", "a\r\n\r\nb", "x^~\n\ny", "0123456789" }

\* Streams built by hand: header lines, each with its line end, then the blank line and
\* a body, or the end of the stream instead, after the last line or inside it.
HeaderNames == { "Content-Length", "Content-Type", "content-length" }
HeaderValues == { "0", "2", "5", "12", "-1", "", "x", "+2" }
HeaderLine(name, value) == [name |-> name, value |-> value]
HeaderLines == { HeaderLine(n, v) : n \in HeaderNames, v \in HeaderValues }
LineEnds == { "\r\n", "\n" }
Closings == { "blank", "eof", "eof_in_line" }
Bodies == { "", "ab", "abcde", "^~", "a\n\nb" }
Inputs ==
    { [lines |-> ls, nl |-> nl, closing |-> c, body |-> b] :
        ls \in UNION { [1..n -> HeaderLines] : n \in 0..MaxHeaderLines },
        nl \in LineEnds, c \in Closings, b \in Bodies }
LineText(l) == l.name \o ": " \o l.value
RECURSIVE HeaderBytes(_, _, _)
HeaderBytes(ls, nl, i) ==
    IF i > Len(ls) THEN "" ELSE LineText(ls[i]) \o nl \o HeaderBytes(ls, nl, i + 1)
InputBytes(in) ==
    LET headers == HeaderBytes(in.lines, in.nl, 1)
    IN CASE in.closing = "blank" -> headers \o in.nl \o in.body
         [] in.closing = "eof" -> headers
         [] in.closing = "eof_in_line" -> SubSeq(headers, 1, Len(headers) - Len(in.nl))

(***************************************************************************)
(* State.                                                                  *)
(***************************************************************************)
VARIABLES
    runPc,          \* where run() is: "new", "started", "loop", "inject" (awaiting the cache lock),
                    \* "returned"
    result,         \* what run() returned: "none", "ok", "err"
    dart_process,   \* self.dart_process: "none", "running", "killed"
    dart_stdin,     \* self.dart_stdin: "none", "some"
    dart_stdout,    \* self.dart_stdout: "none", "some"
    dropped,        \* the proxy has been dropped
    initialized,    \* the local flag of run()
    clientReader,   \* the stdin reader thread: "unstarted", "running", "exited", "send_failed"
    serverReader,   \* the child stdout reader thread
    clientDecoded,  \* payloads read_message returned to the client reader, in order
    serverDecoded,  \* payloads read_message returned to the server reader, in order
    clientQ,        \* the client channel: [id, content], id the index in clientDecoded
    serverQ,        \* the server channel
    clientTaken,    \* ids client_rx.recv() returned, in order
    serverTaken,    \* ids server_rx.recv() returned, in order
    cur,            \* the server message held across the lock await: <<>> or <<[id, msg]>>
    lookups,        \* the cache lookups made: [id, seen, midScan], the map seen under the lock
                    \* and whether the scan was between its clear() and its end
    childStdin,     \* messages written to the child's stdin: [id, content]
    clientStdout,   \* messages written to the client's stdout: [id, content]
    cache,          \* diagnostics_cache
    lockHolder,     \* who holds the cache mutex: "none", "scan"
    scanPc,         \* the spawned scan: "idle", "spawned", "lock", "rules", "done", "failed"
    files,          \* the scan's local files
    scanIdx,        \* the index of the file the scan handles next
    scanCount,      \* how many times the scan was spawned
    our_diagnostics, \* the cached Vec<Diagnostic> the merge loop walks
    pushed,         \* what the merge loop has pushed into the message's array, in order
    orphans,        \* children whose Child handle was dropped by an assignment, unkilled
    disk,           \* the entries find_dart_files met under the root, in walk order
    framerPc,       \* the framer on its own: "idle", "write", "read", "end"
    input,          \* the stream built by hand the framer reads: <<>> or <<i>>, i in Inputs
    store,          \* McpServer.diagnostics: the stored Vec<Diagnostic>
    answers,        \* the requests handled: [request, response, stored], stored the store then
    wire,           \* the bytes of the stream between write_message and read_message
    sent,           \* the payloads write_message was given, in order
    frames          \* what the calls of read_message returned, in order

vars == << runPc, result, dart_process, dropped, initialized, clientReader, serverReader,
           clientDecoded, serverDecoded, clientQ, serverQ, clientTaken, serverTaken,
           cur, lookups, childStdin, clientStdout, cache, lockHolder, scanPc, files,
           scanIdx, scanCount, dart_stdin, dart_stdout, disk, framerPc, wire, sent,
           frames, input, store, answers, orphans, our_diagnostics, pushed >>

procVars == << dart_process, dart_stdin, dart_stdout, dropped, orphans >>
framerVars == << framerPc, wire, sent, frames, input >>
queryVars == << store, answers >>
convertVars == << our_diagnostics, pushed >>
proxyVars == << runPc, result, procVars, initialized, clientReader, serverReader,
                clientDecoded, serverDecoded, clientQ, serverQ, clientTaken, serverTaken,
                cur, lookups, childStdin, clientStdout, cache, lockHolder, scanPc, files,
                scanIdx, scanCount, disk >>
readerVars == << clientReader, serverReader, clientDecoded, serverDecoded >>
scanVars == << cache, lockHolder, scanPc, files, scanIdx >>

\* LspProxy::new, before run() is called.
InitProxy ==
    /\ runPc = "new"
    /\ result = "none"
    /\ dart_process = "none"
    /\ dart_stdin = "none"
    /\ dart_stdout = "none"
    /\ dropped = FALSE
    /\ orphans = 0
    /\ initialized = FALSE
    /\ clientReader = "unstarted"
    /\ serverReader = "unstarted"
    /\ clientDecoded = <<>>
    /\ serverDecoded = <<>>
    /\ clientQ = <<>>
    /\ serverQ = <<>>
    /\ clientTaken = <<>>
    /\ serverTaken = <<>>
    /\ cur = <<>>
    /\ lookups = <<>>
    /\ childStdin = <<>>
    /\ clientStdout = <<>>
    /\ cache = EmptyMap
    /\ lockHolder = "none"
    /\ scanPc = "idle"
    /\ files = <<>>
    /\ scanIdx = 1
    /\ scanCount = 0
    /\ disk = <<>>

\* No merge loop on its own is under way.
ConvertIdle == our_diagnostics = <<>> /\ pushed = <<>>

Init ==
    /\ InitProxy
    /\ ConvertIdle
    /\ framerPc = "idle"
    /\ wire = ""
    /\ sent = <<>>
    /\ frames = <<>>
    /\ input = <<>>
    /\ store = <<>>
    /\ answers = <<>>

(***************************************************************************)
(* The channels.  run() keeps client_tx and server_tx for its whole body   *)
(* and gives each reader thread a clone; a receiver is dropped when run()  *)
(* returns.                                                                *)
(***************************************************************************)
\* Senders of run() that live only while both reader threads run.
RunScopeAliveWhileBothRead ==
    runPc \in {"loop", "inject"} /\ clientReader = "running" /\ serverReader = "running"

\* client_tx and server_tx of run() are alive: run() is inside its loop.
RunScopeAlive == runPc \in {"loop", "inject"}
Held(alive) == IF alive THEN 1 ELSE 0
ClientSenders == Held(RunScopeAlive) + Held(clientReader = "running")
ServerSenders == Held(RunScopeAlive) + Held(serverReader = "running")

\* UnboundedReceiver::recv() resolves to None: the queue is empty and every sender is gone.
RecvNone(q, senders) == q = <<>> /\ senders = 0

\* A channel that hands out its newest element.
RecvLast(q) == Len(q)

\* The element recv() takes.
RecvIndex(q) == 1
Without(q, i) == [j \in 1..(Len(q) - 1) |-> IF j < i THEN q[j] ELSE q[j + 1]]

\* A lock that is granted whoever holds it.
CanLockAlways(holder) == TRUE

\* tokio::sync::Mutex::lock() is granted.
CanLock(holder) == holder = "none"

Entry(id, content) == [id |-> id, content |-> content]

\* A start that reports success, with endpoints, whether or not the child was spawned.
StartOutcomeUnchecked(spawned) ==
    [ok |-> TRUE, process |-> IF spawned THEN "running" ELSE "none",
     stdin |-> "some", stdout |-> "some"]

\* start_dart_server: the fields are set only after spawn() succeeded.
StartOutcome(spawned) ==
    IF spawned
    THEN [ok |-> TRUE, process |-> "running", stdin |-> "some", stdout |-> "some"]
    ELSE [ok |-> FALSE, process |-> "none", stdin |-> "none", stdout |-> "none"]

\* self.dart_process = Some(child): the Child held before is dropped, and the drop of a
\* std::process::Child neither kills nor waits for the process.
Replaced(child) == IF child = "running" THEN 1 ELSE 0

\* The assignments of start_dart_server, reached only when spawn() succeeded.
SetFields(o) ==
    IF o.ok
    THEN /\ dart_process' = o.process
         /\ dart_stdin' = o.stdin
         /\ dart_stdout' = o.stdout
         /\ orphans' = orphans + Replaced(dart_process)
    ELSE UNCHANGED << dart_process, dart_stdin, dart_stdout, orphans >>

\* self.start_dart_server()? at the head of run().
RunStart ==
    /\ runPc = "new"
    /\ ~dropped
    /\ \E spawned \in BOOLEAN :
          LET o == StartOutcome(spawned)
          IN /\ SetFields(o)
             /\ IF o.ok
                THEN /\ runPc' = "started"
                     /\ UNCHANGED result
                ELSE /\ runPc' = "returned"
                     /\ result' = "err"
    /\ UNCHANGED << dropped, initialized, readerVars, clientQ, serverQ, clientTaken,
                    serverTaken, cur, lookups, childStdin, clientStdout, scanVars,
                    scanCount, disk, framerVars, queryVars, convertVars >>

\* The two take().context(..)? of run(), the channels and the two thread spawns.
RunTakeStreams ==
    /\ runPc = "started"
    /\ IF dart_stdin = "some" /\ dart_stdout = "some"
       THEN /\ dart_stdin' = "none"
            /\ dart_stdout' = "none"
            /\ runPc' = "loop"
            /\ clientReader' = "running"
            /\ serverReader' = "running"
            /\ UNCHANGED result
       ELSE /\ runPc' = "returned"
            /\ result' = "err"
            /\ dart_stdin' = "none"
            /\ UNCHANGED << dart_stdout, clientReader, serverReader >>
    /\ UNCHANGED << dart_process, dropped, orphans, initialized, clientDecoded, serverDecoded,
                    clientQ, serverQ, clientTaken, serverTaken, cur, lookups, childStdin,
                    clientStdout, scanVars, scanCount, disk, framerVars, queryVars, convertVars >>

\* One turn of the client reader thread's loop, the stream carrying payloads of texts.
ClientReaderOn(texts) ==
    /\ clientReader = "running"
    /\ \/ \E m \in texts :
            /\ Len(clientDecoded) < MaxClientMsgs
            /\ clientDecoded' = Append(clientDecoded, m)
            /\ IF RunScopeAlive
               THEN /\ clientQ' = Append(clientQ, Entry(Len(clientDecoded) + 1, m))
                    /\ UNCHANGED clientReader
               ELSE /\ clientReader' = "send_failed"
                    /\ UNCHANGED clientQ
       \/ /\ clientReader' = "exited"
          /\ UNCHANGED << clientDecoded, clientQ >>
    /\ UNCHANGED << runPc, result, procVars, initialized, serverReader, serverDecoded,
                    serverQ, clientTaken, serverTaken, cur, lookups, childStdin,
                    clientStdout, scanVars, scanCount >>
    /\ UNCHANGED << disk, framerVars, queryVars, convertVars >>

ClientReader == ClientReaderOn(ClientTexts)

\* One turn of the server reader thread's loop, the stream carrying payloads of texts.
ServerReaderOn(texts) ==
    /\ serverReader = "running"
    /\ \/ \E m \in texts :
            /\ Len(serverDecoded) < MaxServerMsgs
            /\ serverDecoded' = Append(serverDecoded, m)
            /\ IF RunScopeAlive
               THEN /\ serverQ' = Append(serverQ, Entry(Len(serverDecoded) + 1, m))
                    /\ UNCHANGED serverReader
               ELSE /\ serverReader' = "send_failed"
                    /\ UNCHANGED serverQ
       \/ /\ serverReader' = "exited"
          /\ UNCHANGED << serverDecoded, serverQ >>
    /\ UNCHANGED << runPc, result, procVars, initialized, clientReader, clientDecoded,
                    clientQ, clientTaken, serverTaken, cur, lookups, childStdin,
                    clientStdout, scanVars, scanCount >>
    /\ UNCHANGED << disk, framerVars, queryVars, convertVars >>

ServerReader == ServerReaderOn(ServerTexts)

\* A loop that takes from the two queues in turn, and waits for the one whose turn it is.
BranchReadyInTurn(q, ownTaken, otherTaken) == q # <<>> /\ Len(ownTaken) <= Len(otherTaken)

\* select!: a branch is taken as soon as its recv() has a message, whatever the other.
BranchReady(q, ownTaken, otherTaken) == q # <<>>

\* Self::write_message(..)? inside run(): the frame is written, or run() returns the error.
WriteOrFail(ok, log, e) ==
    IF ok
    THEN /\ log' = Append(log, e)
         /\ runPc' = "loop"
         /\ UNCHANGED result
    ELSE /\ runPc' = "returned"
         /\ result' = "err"
         /\ UNCHANGED log

\* select! branch: Some(content) = client_rx.recv()
ClientBranch ==
    /\ runPc = "loop"
    /\ BranchReady(clientQ, clientTaken, serverTaken)
    /\ LET e == clientQ[RecvIndex(clientQ)]
       IN /\ clientQ' = Without(clientQ, RecvIndex(clientQ))
          /\ clientTaken' = Append(clientTaken, e.id)
          /\ IF FromStrOk(e.content)
             THEN \E ok \in BOOLEAN : WriteOrFail(ok, childStdin, e)
             ELSE UNCHANGED << childStdin, runPc, result >>
    /\ UNCHANGED << procVars, initialized, readerVars, serverQ, serverTaken, cur, lookups,
                    clientStdout, scanVars, scanCount >>
    /\ UNCHANGED << disk, framerVars, queryVars, convertVars >>

\* A dispatch that ignores the flag.
ShouldDispatchAlways(msg, flag) == msg.method = MInitialized

\* method == "initialized" && !initialized
ShouldDispatch(msg, flag) == msg.method = MInitialized /\ ~flag

\* select! branch: Some(content) = server_rx.recv(), up to the await of the cache lock.
ServerBranch ==
    /\ runPc = "loop"
    /\ BranchReady(serverQ, serverTaken, clientTaken)
    /\ LET e == serverQ[RecvIndex(serverQ)]
           msg == FromStr(e.content)
       IN /\ serverQ' = Without(serverQ, RecvIndex(serverQ))
          /\ serverTaken' = Append(serverTaken, e.id)
          /\ IF FromStrOk(e.content)
             THEN /\ IF ShouldDispatch(msg, initialized)
                     THEN /\ initialized' = TRUE
                          /\ scanPc' = "spawned"
                          /\ scanCount' = scanCount + 1
                     ELSE UNCHANGED << initialized, scanPc, scanCount >>
                  /\ IF NeedsCache(msg)
                     THEN /\ cur' = << [id |-> e.id, msg |-> msg] >>
                          /\ runPc' = "inject"
                          /\ UNCHANGED << clientStdout, result >>
                     ELSE /\ \E ok \in BOOLEAN :
                                WriteOrFail(ok, clientStdout, Entry(e.id, SerdeToString(msg)))
                          /\ UNCHANGED cur
             ELSE /\ \E ok \in BOOLEAN : WriteOrFail(ok, clientStdout, e)
                  /\ UNCHANGED << initialized, scanPc, scanCount, cur >>
    /\ UNCHANGED << procVars, readerVars, clientQ, clientTaken, lookups, childStdin,
                    cache, lockHolder, files, scanIdx >>
    /\ UNCHANGED << disk, framerVars, queryVars, convertVars >>

\* A lookup that stores the incoming entries of the message under its path.
CacheAfterLookupStoring(map, msg) ==
    IF msg.hasArray /\ msg.diags # <<>>
    THEN MapInsert(map, StripFileScheme(msg.uri), <<>>)
    ELSE map

\* let cache_lock = cache.lock().await; cache_lock.get(file_path): the guard is only read.
CacheAfterLookup(map, msg) == map

\* inject_diagnostics_static once cache.lock().await is granted, then the write to the client.
InjectAndWrite ==
    /\ runPc = "inject"
    /\ CanLock(lockHolder)
    /\ LET c == cur[1]
           out == InjectDiagnostics(c.msg, cache)
       IN /\ lookups' = Append(lookups, [id |-> c.id, seen |-> cache, midScan |-> (scanPc = "rules")])
          /\ \E ok \in BOOLEAN :
                WriteOrFail(ok, clientStdout, Entry(c.id, SerdeToString(out)))
    /\ cur' = <<>>
    /\ cache' = CacheAfterLookup(cache, cur[1].msg)
    /\ UNCHANGED << procVars, initialized, readerVars, clientQ, serverQ, clientTaken,
                    serverTaken, childStdin, lockHolder, scanPc, files, scanIdx, scanCount >>
    /\ UNCHANGED << disk, framerVars, queryVars, convertVars >>

\* select! with no message ready: the else arm when both recv() gave None, pending otherwise.
SelectNoneReady ==
    /\ runPc = "loop"
    /\ clientQ = <<>>
    /\ serverQ = <<>>
    /\ IF RecvNone(clientQ, ClientSenders) /\ RecvNone(serverQ, ServerSenders)
       THEN /\ runPc' = "returned"
            /\ result' = "ok"
       ELSE UNCHANGED << runPc, result >>
    /\ UNCHANGED << procVars, initialized, readerVars, clientQ, serverQ, clientTaken,
                    serverTaken, cur, lookups, childStdin, clientStdout, scanVars,
                    scanCount >>
    /\ UNCHANGED << disk, framerVars, queryVars, convertVars >>

(***************************************************************************)
(* The spawned scan: analyze_workspace_static.                             *)
(***************************************************************************)
\* parser::find_dart_files(workspace_root)?, the root being one of disks.
ScanEnumerateOn(disks) ==
    /\ scanPc = "spawned"
    /\ \E d \in disks :
          /\ disk' = d
          /\ IF FindDartFiles(d).ok
             THEN /\ files' = FindDartFiles(d).files
                  /\ scanPc' = "lock"
             ELSE /\ scanPc' = "failed"
                  /\ UNCHANGED files
    /\ UNCHANGED << runPc, result, procVars, initialized, readerVars, clientQ, serverQ,
                    clientTaken, serverTaken, cur, lookups, childStdin, clientStdout,
                    cache, lockHolder, scanIdx, scanCount, framerVars, queryVars, convertVars >>

ScanEnumerate == ScanEnumerateOn(Disks)

\* cache.lock().await; cache_lock.clear()
ScanLock ==
    /\ scanPc = "lock"
    /\ CanLock(lockHolder)
    /\ lockHolder' = "scan"
    /\ cache' = EmptyMap
    /\ scanIdx' = 1
    /\ scanPc' = "rules"
    /\ UNCHANGED << runPc, result, procVars, initialized, readerVars, clientQ, serverQ,
                    clientTaken, serverTaken, cur, lookups, childStdin, clientStdout,
                    files, scanCount >>
    /\ UNCHANGED << disk, framerVars, queryVars, convertVars >>

\* One turn of the loop over the files.
ScanFile ==
    /\ scanPc = "rules"
    /\ scanIdx <= Len(files)
    /\ cache' = ScanOneFile(cache, files[scanIdx])
    /\ scanIdx' = scanIdx + 1
    /\ UNCHANGED << runPc, result, procVars, initialized, readerVars, clientQ, serverQ,
                    clientTaken, serverTaken, cur, lookups, childStdin, clientStdout,
                    lockHolder, scanPc, files, scanCount >>
    /\ UNCHANGED << disk, framerVars, queryVars, convertVars >>

\* A function end that leaks its guard.
GuardKept(holder) == holder

\* cache_lock goes out of scope at the end of analyze_workspace_static.
GuardDropped(holder) == "none"

\* The end of the function: the guard is dropped.
ScanFinish ==
    /\ scanPc = "rules"
    /\ scanIdx > Len(files)
    /\ lockHolder' = GuardDropped(lockHolder)
    /\ scanPc' = "done"
    /\ UNCHANGED << runPc, result, procVars, initialized, readerVars, clientQ, serverQ,
                    clientTaken, serverTaken, cur, lookups, childStdin, clientStdout,
                    cache, files, scanIdx, scanCount >>
    /\ UNCHANGED << disk, framerVars, queryVars, convertVars >>

\* A drop that leaves the child alone.
AfterDropNoKill(child) == child

\* if let Some(mut child) = self.dart_process.take() { let _ = child.kill(); }
AfterDrop(child) == IF child = "running" THEN "killed" ELSE child

\* impl Drop for LspProxy, once run() has returned or was never called.
Drop ==
    /\ runPc \in {"new", "returned"}
    /\ ~dropped
    /\ dropped' = TRUE
    /\ dart_process' = AfterDrop(dart_process)
    /\ UNCHANGED << dart_stdin, dart_stdout, orphans, disk, framerVars, queryVars, convertVars >>
    /\ UNCHANGED << runPc, result, initialized, readerVars, clientQ, serverQ, clientTaken,
                    serverTaken, cur, lookups, childStdin, clientStdout, scanVars,
                    scanCount >>

\* impl Clone for LspProxy: the clone's dart_process is None whatever self holds.
CloneProcess(child) == "none"

\* self.clone() and the drop of the clone, while run() does not borrow self: the
\* child of self is killed only if the clone held it.
CloneDrop ==
    /\ runPc \in {"new", "returned"}
    /\ ~dropped
    /\ dart_process' = IF AfterDrop(CloneProcess(dart_process)) = "killed"
                       THEN "killed" ELSE dart_process
    /\ UNCHANGED << dart_stdin, dart_stdout, dropped, orphans, disk, framerVars, queryVars, convertVars >>
    /\ UNCHANGED << runPc, result, initialized, readerVars, clientQ, serverQ, clientTaken,
                    serverTaken, cur, lookups, childStdin, clientStdout, scanVars,
                    scanCount >>

Next ==
    \/ RunStart
    \/ RunTakeStreams
    \/ ClientReader
    \/ ServerReader
    \/ ClientBranch
    \/ ServerBranch
    \/ InjectAndWrite
    \/ SelectNoneReady
    \/ ScanEnumerate
    \/ ScanLock
    \/ ScanFile
    \/ ScanFinish
    \/ Drop
    \/ CloneDrop

Spec == Init /\ [][Next]_vars

(***************************************************************************)
(* The session under its scheduling.  The coordinating loop is a task of   *)
(* the runtime, polled whenever one of its recv() or its lock() can make   *)
(* progress, and the scan is a spawned task of the same runtime: their     *)
(* steps are weakly fair.  The reader threads block on their streams for   *)
(* as long as the other party stays silent: no fairness for them.  The     *)
(* streams carry fewer kinds of payload and the root fewer files than in   *)
(* Spec.                                                                   *)
(***************************************************************************)
LiveClientTexts == { Garbage, Text(TRUE, TRUE, Publish("file:///a.dart", <<>>)) }
LiveServerTexts ==
    { Text(TRUE, TRUE, JsonValue(MInitialized, FALSE, "", FALSE, <<>>)),
      Text(TRUE, TRUE, Publish("file:///a.dart", <<ServerDiag>>)) }
LiveDisks == { d \in Disks : Len(d) = 1 }

ClientReaderLive == ClientReaderOn(LiveClientTexts)
ServerReaderLive == ServerReaderOn(LiveServerTexts)
ScanEnumerateLive == ScanEnumerateOn(LiveDisks)

NextLive ==
    \/ RunStart
    \/ RunTakeStreams
    \/ ClientReaderLive
    \/ ServerReaderLive
    \/ ClientBranch
    \/ ServerBranch
    \/ InjectAndWrite
    \/ SelectNoneReady
    \/ ScanEnumerateLive
    \/ ScanLock
    \/ ScanFile
    \/ ScanFinish

FairLive ==
    /\ WF_vars(RunTakeStreams)
    /\ WF_vars(ClientBranch)
    /\ WF_vars(ServerBranch)
    /\ WF_vars(InjectAndWrite)
    /\ WF_vars(ScanEnumerateLive)
    /\ WF_vars(ScanLock)
    /\ WF_vars(ScanFile)
    /\ WF_vars(ScanFinish)

SpecLive == Init /\ [][NextLive]_vars /\ FairLive

(***************************************************************************)
(* The proxy under every call its public interface allows on one value:    *)
(* start_dart_server is pub, so the holder of the proxy can call it before *)
(* run(), after run() and more than once.  The streams and the root are    *)
(* those of SpecLive.                                                      *)
(***************************************************************************)
MaxOrphans == 1

\* proxy.start_dart_server() called by the holder of the proxy, while run() does not
\* borrow it.
StartDartServer ==
    /\ runPc \in {"new", "returned"}
    /\ ~dropped
    /\ orphans < MaxOrphans
    /\ \E spawned \in BOOLEAN : SetFields(StartOutcome(spawned))
    /\ UNCHANGED << runPc, result, dropped, initialized, readerVars, clientQ, serverQ,
                    clientTaken, serverTaken, cur, lookups, childStdin, clientStdout,
                    scanVars, scanCount, disk, framerVars, queryVars, convertVars >>

NextCalls ==
    \/ StartDartServer
    \/ RunStart
    \/ RunTakeStreams
    \/ ClientReaderLive
    \/ ServerReaderLive
    \/ ClientBranch
    \/ ServerBranch
    \/ InjectAndWrite
    \/ SelectNoneReady
    \/ ScanEnumerateLive
    \/ ScanLock
    \/ ScanFile
    \/ ScanFinish
    \/ Drop
    \/ CloneDrop

SpecCalls == Init /\ [][NextCalls]_vars

(***************************************************************************)
(* The framer on its own: a writer that frames payloads and closes the     *)
(* stream, or a stream built by hand, and the loop of a reader thread.     *)
(***************************************************************************)
InitFramer ==
    /\ InitProxy
    /\ ConvertIdle
    /\ store = <<>>
    /\ answers = <<>>
    /\ sent = <<>>
    /\ frames = <<>>
    /\ \/ /\ framerPc = "write"
          /\ wire = ""
          /\ input = <<>>
       \/ \E in \in Inputs :
             /\ framerPc = "read"
             /\ wire = InputBytes(in)
             /\ input = << in >>

\* write_message(writer, content)
FramerWrite ==
    /\ framerPc = "write"
    /\ Len(sent) < MaxFrames
    /\ \E content \in Payloads :
          /\ wire' = wire \o WriteMessage(content)
          /\ sent' = Append(sent, content)
    /\ UNCHANGED << framerPc, frames, input, proxyVars, queryVars, convertVars >>

\* The writer closes the stream: what was written is all the reader will get.
FramerClose ==
    /\ framerPc = "write"
    /\ framerPc' = "read"
    /\ UNCHANGED << wire, sent, frames, input, proxyVars, queryVars, convertVars >>

\* One turn of a reader thread's loop: read_message, break on Ok(None) and on Err.
FramerRead ==
    /\ framerPc = "read"
    /\ LET f == ReadMessage(wire)
       IN /\ frames' = Append(frames, [kind |-> f.kind, content_length |-> f.content_length,
                                       content |-> f.content, before |-> wire])
          /\ wire' = f.rest
          /\ framerPc' = IF f.kind = "msg" THEN "read" ELSE "end"
    /\ UNCHANGED << sent, input, proxyVars, queryVars, convertVars >>

NextFramer ==
    \/ FramerWrite
    \/ FramerClose
    \/ FramerRead

SpecFramer == InitFramer /\ [][NextFramer]_vars

(***************************************************************************)
(* The merge loop on its own: for our_diag in our_diagnostics              *)
(* { diags.push(diagnostic_to_lsp(our_diag)) }, over cached diagnostics    *)
(* with every position up to the bounds, 0 included, and with and without  *)
(* end_line and end_column.                                                *)
(***************************************************************************)
MaxLine == 2
MaxColumn == 2

\* Option<usize>: None, or Some of a value.
OptionUsize(max) == { <<>> } \cup { <<v>> : v \in {0, max + 1} }

CachedDiagnostics ==
    { Diagnostic("avoid_dynamic", "Avoid dynamic", "Warning",
                 Location(line, column, end_line, end_column)) :
        line \in 0..MaxLine, column \in 0..MaxColumn,
        end_line \in OptionUsize(MaxLine), end_column \in OptionUsize(MaxColumn) }

\* The cached entry of one path: one diagnostic, or two to compare.
CachedLists == [1..1 -> CachedDiagnostics] \cup [1..2 -> CachedDiagnostics]

InitConvert ==
    /\ InitProxy
    /\ framerPc = "idle"
    /\ wire = ""
    /\ sent = <<>>
    /\ frames = <<>>
    /\ input = <<>>
    /\ store = <<>>
    /\ answers = <<>>
    /\ our_diagnostics \in CachedLists
    /\ pushed = <<>>

\* One turn of the loop: diags.push(LspProxy::diagnostic_to_lsp(our_diag))
Push ==
    /\ Len(pushed) < Len(our_diagnostics)
    /\ pushed' = Append(pushed, DiagnosticToLsp(our_diagnostics[Len(pushed) + 1]))
    /\ UNCHANGED << our_diagnostics, proxyVars, framerVars, queryVars >>

NextConvert == Push

SpecConvert == InitConvert /\ [][NextConvert]_vars

(***************************************************************************)
(* The query server (src/src/mcp/mod.rs): a store of diagnostics and the   *)
(* requests handle_request answers from it.                                *)
(***************************************************************************)
MaxStored == 2
MaxRequests == 2

\* The fields of a Diagnostic the query server reads.
Categories == {"Style", "Runtime"}
StoredDiagnostic(rule_id, file, severity, category) ==
    [rule_id |-> rule_id, file |-> file, severity |-> severity, category |-> category]
StoredDiagnostics ==
    { StoredDiagnostic("rule1", "lib/a.dart", "Error", "Runtime"),
      StoredDiagnostic("rule2", "test/a.dart", "Warning", "Style"),
      StoredDiagnostic("rule3", "lib/b.dart", "Error", "Style") }
Stores == UNION { [1..n -> StoredDiagnostics] : n \in 0..MaxStored }

\* impl fmt::Display for Severity, for RuleCategory
SeverityToString(severity) ==
    CASE severity = "Error" -> "error"
      [] severity = "Warning" -> "warning"
      [] severity = "Info" -> "info"
CategoryToString(category) ==
    CASE category = "Style" -> "style"
      [] category = "Runtime" -> "runtime"

\* str::contains
Contains(s, sub) ==
    \E i \in 1..(Len(s) + 1) :
        i + Len(sub) - 1 <= Len(s) /\ SubSeq(s, i, i + Len(sub) - 1) = sub

\* ErrorsQuery: each field <<>> for None, <<s>> for Some(s).
ErrorsQuery(category, severity, file) ==
    [category |-> category, severity |-> severity, file |-> file]

\* A filter that keeps a diagnostic as soon as one of the filters present accepts it.
KeepsAny(d, query) ==
    \/ query.category # <<>> /\ CategoryToString(d.category) = query.category[1]
    \/ query.severity # <<>> /\ SeverityToString(d.severity) = query.severity[1]
    \/ query.file # <<>> /\ Contains(d.file, query.file[1])
    \/ query = ErrorsQuery(<<>>, <<>>, <<>>)

\* The closure of get_filtered_diagnostics.
Keeps(d, query) ==
    /\ query.category # <<>> => CategoryToString(d.category) = query.category[1]
    /\ query.severity # <<>> => SeverityToString(d.severity) = query.severity[1]
    /\ query.file # <<>> => Contains(d.file, query.file[1])

\* get_filtered_diagnostics: iter().filter(..).cloned().collect()
GetFilteredDiagnostics(stored, query) == SelectSeq(stored, LAMBDA d : Keeps(d, query))

\* serde_json::Value as far as the params of a request go.
JNull == [t |-> "null", s |-> "", items |-> <<>>]
JString(s) == [t |-> "string", s |-> s, items |-> <<>>]
JNumber == [t |-> "number", s |-> "", items |-> <<>>]
JArray(items) == [t |-> "array", s |-> "", items |-> items]
\* An object: items pairs each of its keys with a value.
JField(key, value) == [key |-> key, value |-> value]
JObject(fields) == [t |-> "object", s |-> "", items |-> fields]

\* Deserialize for Option<String>: null is None, a string is Some, the rest an error.
OptionString(v) ==
    CASE v.t = "null" -> [ok |-> TRUE, value |-> <<>>]
      [] v.t = "string" -> [ok |-> TRUE, value |-> << v.s >>]
      [] OTHER -> [ok |-> FALSE, value |-> <<>>]

\* The field of an object by its key: a missing Option field is None.
FieldOf(fields, key) ==
    LET at == { i \in 1..Len(fields) : fields[i].key = key }
    IN IF at = {} THEN [ok |-> TRUE, value |-> <<>>]
       ELSE OptionString(fields[CHOOSE i \in at : TRUE].value)

QueryError == [ok |-> FALSE, query |-> ErrorsQuery(<<>>, <<>>, <<>>)]
QueryOf(c, s, f) ==
    IF c.ok /\ s.ok /\ f.ok
    THEN [ok |-> TRUE, query |-> ErrorsQuery(c.value, s.value, f.value)]
    ELSE QueryError

\* A deserialisation that takes whatever is not a well-formed query for the empty query.
FromValueLenient(params) == [ok |-> TRUE, query |-> ErrorsQuery(<<>>, <<>>, <<>>)]

\* serde_json::from_value::<ErrorsQuery>(params): the derived Deserialize of a struct
\* takes a map by field name and a sequence by field position.
FromValue(params) ==
    CASE params.t = "object" ->
            QueryOf(FieldOf(params.items, "category"), FieldOf(params.items, "severity"),
                    FieldOf(params.items, "file"))
      [] params.t = "array" ->
            IF Len(params.items) = 3
            THEN QueryOf(OptionString(params.items[1]), OptionString(params.items[2]),
                         OptionString(params.items[3]))
            ELSE QueryError
      [] OTHER -> QueryError

\* .iter().filter(|d| d.<field> == <value>).count()
Count(stored, field, value) == Cardinality({ i \in 1..Len(stored) : stored[i][field] = value })

\* DiagnosticsStats::from_diagnostics
DiagnosticsStats(stored) ==
    [total |-> Len(stored),
     errors |-> Count(stored, "severity", "Error"),
     warnings |-> Count(stored, "severity", "Warning"),
     info |-> Count(stored, "severity", "Info"),
     style_issues |-> Count(stored, "category", "Style"),
     runtime_issues |-> Count(stored, "category", "Runtime"),
     files_with_issues |-> Cardinality({ stored[i].file : i \in 1..Len(stored) })]
NoStats == DiagnosticsStats(<<>>)

\* McpResponse: data is a list of diagnostics, the stats or Null; error is <<>> or <<text>>.
McpResponse(success, kind, diagnostics, stats, error) ==
    [success |-> success, kind |-> kind, diagnostics |-> diagnostics, stats |-> stats,
     error |-> error]
McpRequest(method, params) == [method |-> method, params |-> params]

HandleRequest(request, stored) ==
    CASE request.method = "get_all_errors" ->
            McpResponse(TRUE, "diagnostics", stored, NoStats, <<>>)
      [] request.method = "get_errors" ->
            IF FromValue(request.params).ok
            THEN McpResponse(TRUE, "diagnostics",
                             GetFilteredDiagnostics(stored, FromValue(request.params).query),
                             NoStats, <<>>)
            ELSE McpResponse(FALSE, "null", <<>>, NoStats,
                             << "Invalid query parameters: " \o "invalid type" >>)
      [] request.method = "get_stats" ->
            McpResponse(TRUE, "stats", <<>>, DiagnosticsStats(stored), <<>>)
      [] OTHER ->
            McpResponse(FALSE, "null", <<>>, NoStats,
                        << "Unknown method: " \o request.method >>)

\* The requests sent to the server.
QueryParams ==
    { JObject(<<>>),
      JObject(<< JField("category", JString("runtime")) >>),
      JObject(<< JField("category", JString("Runtime")) >>),
      JObject(<< JField("severity", JString("error")) >>),
      JObject(<< JField("file", JString("lib/")) >>),
      JObject(<< JField("file", JString("a.dart")), JField("category", JNull) >>),
      JObject(<< JField("category", JString("style")), JField("severity", JString("error")),
                 JField("file", JString("lib/")) >>) }
OtherParams ==
    { JString("invalid"), JNull, JArray(<<>>),
      JArray(<< JString("runtime"), JNull, JNull >>),
      JObject(<< JField("category", JNumber) >>) }
Requests ==
    { McpRequest("get_errors", p) : p \in QueryParams \cup OtherParams }
    \cup { McpRequest(m, JObject(<<>>)) : m \in {"get_all_errors", "get_stats", "unknown_method"} }

InitQuery ==
    /\ InitProxy
    /\ ConvertIdle
    /\ framerPc = "idle"
    /\ wire = ""
    /\ sent = <<>>
    /\ frames = <<>>
    /\ input = <<>>
    /\ store = <<>>
    /\ answers = <<>>

\* McpServer::update_diagnostics
UpdateDiagnostics ==
    /\ \E diagnostics \in Stores : store' = diagnostics
    /\ UNCHANGED << answers, proxyVars, framerVars, convertVars >>

\* McpServer::handle_request
Handle ==
    /\ Len(answers) < MaxRequests
    /\ \E request \in Requests :
          answers' = Append(answers, [request |-> request,
                                      response |-> HandleRequest(request, store),
                                      stored |-> store])
    /\ UNCHANGED << store, proxyVars, framerVars, convertVars >>

NextQuery ==
    \/ UpdateDiagnostics
    \/ Handle

SpecQuery == InitQuery /\ [][NextQuery]_vars

(***************************************************************************)
(* Properties.                                                             *)
(***************************************************************************)
ReaderGone(r) == r \in {"exited", "send_failed"}
IsInitialized(content) == FromStrOk(content) /\ FromStr(content).method = MInitialized
Positions(log, id) == { i \in 1..Len(log) : log[i].id = id }
ServerHeld(id) == cur # <<>> /\ cur[1].id = id

\* C1: once both reader loops have exited and every queued message has been consumed,
\* the coordinating loop can take its else arm (both recv() give None) and run returns.
C1_ElseArmTaken ==
    (runPc = "loop" /\ ReaderGone(clientReader) /\ ReaderGone(serverReader)
        /\ clientQ = <<>> /\ serverQ = <<>>)
    => (RecvNone(clientQ, ClientSenders) /\ RecvNone(serverQ, ServerSenders))

PassedThrough(taken, decoded, log) ==
    \A k \in 1..Len(taken) :
        ~FromStrOk(decoded[taken[k]])
            => \E i \in 1..Len(log) : log[i] = Entry(taken[k], decoded[taken[k]])
\* C2: in either direction, a dequeued payload that does not parse as JSON has been
\* written to the opposite party byte-identical (no write error having ended run).
C2_Passthrough ==
    result # "err"
    => /\ PassedThrough(clientTaken, clientDecoded, childStdin)
       /\ PassedThrough(serverTaken, serverDecoded, clientStdout)

\* C3: every message the loop has dequeued and finished handling has been written
\* exactly once to the destination of its direction (no write error having ended run).
C3_NoMessageLoss ==
    result # "err"
    => /\ \A k \in 1..Len(clientTaken) :
             Cardinality(Positions(childStdin, clientTaken[k])) = 1
       /\ \A k \in 1..Len(serverTaken) :
             \/ ServerHeld(serverTaken[k])
             \/ Cardinality(Positions(clientStdout, serverTaken[k])) = 1

\* How many server-origin "initialized" messages the loop has handled.
InitializedHandled ==
    Cardinality({ k \in 1..Len(serverTaken) : IsInitialized(serverDecoded[serverTaken[k]]) })
\* C4: the scan is spawned at most once, and exactly once as soon as the loop has
\* handled one or more server-origin "initialized" messages, whatever became of the scan.
C4_AtMostOnceScan ==
    /\ scanCount <= 1
    /\ (scanCount = 1) <=> (InitializedHandled >= 1)
\* Two "initialized" were handled and the only scan spawned has failed.
C4_Witness ==
    /\ InitializedHandled = 2
    /\ scanCount = 1
    /\ scanPc = "failed"

\* C5: every lookup of the loop is made outside the scan's clear-and-refill and sees
\* either the map as it was before the scan (empty since construction) or the complete
\* map of the scan, never a part of it.
C5_CacheAtomicity ==
    \A i \in 1..Len(lookups) :
        /\ ~lookups[i].midScan
        /\ \/ lookups[i].seen = EmptyMap
           \/ lookups[i].seen = ScanResult(files)
\* The loop wants the cache while the scan has refilled only a part of it.
C5_Witness ==
    /\ runPc = "inject"
    /\ scanPc = "rules"
    /\ cache # EmptyMap
    /\ cache # ScanResult(files)

\* C6: while the scan is in progress, a publish message that needs the cache is never
\* kept waiting: the lock is granted to the loop.
C6_ScanNeverBlocksLoop ==
    (runPc = "inject" /\ scanPc \in {"spawned", "lock", "rules"}) => CanLock(lockHolder)

Increasing(ids) == \A i, j \in 1..Len(ids) : i < j => ids[i] < ids[j]
LogIds(log) == [i \in 1..Len(log) |-> log[i].id]
SameMessage(in, out) ==
    IF FromStrOk(in)
    THEN /\ FromStrOk(out)
         /\ FromStr(out).method = FromStr(in).method
         /\ FromStr(out).hasUri = FromStr(in).hasUri
         /\ FromStr(out).uri = FromStr(in).uri
    ELSE out = in
\* C7: per direction, the messages written are messages that were decoded, in the order
\* they were decoded, none twice.
C7_PerDirectionFifo ==
    /\ Increasing(clientTaken)
    /\ Increasing(serverTaken)
    /\ Increasing(LogIds(childStdin))
    /\ Increasing(LogIds(clientStdout))
    /\ \A i \in 1..Len(childStdin) :
          /\ childStdin[i].id \in 1..Len(clientDecoded)
          /\ childStdin[i].content = clientDecoded[childStdin[i].id]
    /\ \A i \in 1..Len(clientStdout) :
          /\ clientStdout[i].id \in 1..Len(serverDecoded)
          /\ SameMessage(serverDecoded[clientStdout[i].id], clientStdout[i].content)
\* Two messages were written in each direction.
C7_Witness ==
    /\ Len(childStdin) = 2
    /\ Len(clientStdout) = 2

\* The publish message of a lookup as it came in, and its diagnostics as written out.
LookupIn(l) == FromStr(serverDecoded[l.id])
LookupKey(l) == StripFileScheme(LookupIn(l).uri)
OutDiags(p) == FromStr(clientStdout[p].content).diags

\* C8: for a publish message whose file has cached diagnostics, the array written is
\* the incoming array followed by one converted entry per cached diagnostic, in order.
C8_MergeAppends ==
    \A i \in 1..Len(lookups) :
        LET l == lookups[i]
            in == LookupIn(l)
        IN (in.hasArray /\ LookupKey(l) \in DOMAIN l.seen)
           => \A p \in Positions(clientStdout, l.id) :
                 LET cached == l.seen[LookupKey(l)]
                 IN /\ Len(OutDiags(p)) = Len(in.diags) + Len(cached)
                    /\ SubSeq(OutDiags(p), 1, Len(in.diags)) = in.diags
                    /\ \A j \in 1..Len(cached) :
                          OutDiags(p)[Len(in.diags) + j] = DiagnosticToLsp(cached[j])
\* A publish message with one entry of the server's was written with three cached ones added.
C8_Witness ==
    \E i \in 1..Len(lookups) :
        /\ LookupIn(lookups[i]).diags = << ServerDiag >>
        /\ LookupKey(lookups[i]) \in DOMAIN lookups[i].seen
        /\ \E p \in Positions(clientStdout, lookups[i].id) : Len(OutDiags(p)) = 4

ConvertedAs(d, e) ==
    /\ d.severity = "Error" => e.severity = 1
    /\ d.severity = "Warning" => e.severity = 2
    /\ d.severity = "Info" => e.severity = 3
    /\ d.location.line >= 1 => e.range.start.line = d.location.line - 1
    /\ d.location.column >= 1 => e.range.start.character = d.location.column - 1
    /\ e.code = d.rule_id
    /\ e.source = "dart-re-analyzer"
\* C9: every converted entry has severity 1, 2, 3 for Error, Warning, Info, the
\* 1-indexed line and column each lowered by one, the rule id as code and the fixed source.
C9_DiagnosticConversion ==
    \A i \in 1..Len(lookups) :
        LET l == lookups[i]
            in == LookupIn(l)
        IN (in.hasArray /\ LookupKey(l) \in DOMAIN l.seen)
           => \A p \in Positions(clientStdout, l.id) :
                 \A j \in 1..Len(l.seen[LookupKey(l)]) :
                    /\ Len(in.diags) + j <= Len(OutDiags(p))
                    /\ ConvertedAs(l.seen[LookupKey(l)][j], OutDiags(p)[Len(in.diags) + j])
\* The Warning cached at line 10, column 5 was written at line 9, character 4, severity 2.
C9_Witness ==
    \E i \in 1..Len(lookups) :
        /\ LookupKey(lookups[i]) \in DOMAIN lookups[i].seen
        /\ \E j \in 1..Len(lookups[i].seen[LookupKey(lookups[i])]) :
              LET d == lookups[i].seen[LookupKey(lookups[i])][j]
              IN d.severity = "Warning" /\ d.location.line = 10 /\ d.location.column = 5
        /\ \E p \in Positions(clientStdout, lookups[i].id) :
              \E j \in 1..Len(OutDiags(p)) :
                 /\ OutDiags(p)[j].range.start = [line |-> 9, character |-> 4]
                 /\ OutDiags(p)[j].severity = 2
                 /\ OutDiags(p)[j].source = "dart-re-analyzer"

HasFileScheme(u) == Len(u) >= Len(FileScheme) /\ SubSeq(u, 1, Len(FileScheme)) = FileScheme
MatchesKey(u, k) == u = FileScheme \o k \/ (u = k /\ ~HasFileScheme(u))
\* C10: entries are added to a publish message's array exactly when the cache has a key
\* k with uri = "file://" k, or uri = k for a uri without that prefix.
C10_ExactMatchLookup ==
    \A i \in 1..Len(lookups) :
        LET l == lookups[i]
            in == LookupIn(l)
        IN in.hasArray
           => \A p \in Positions(clientStdout, l.id) :
                 /\ (OutDiags(p) # in.diags) <=> (\E k \in DOMAIN l.seen : MatchesKey(in.uri, k))
                 /\ Len(OutDiags(p)) >= Len(in.diags)
                 /\ SubSeq(OutDiags(p), 1, Len(in.diags)) = in.diags
\* With "/a.dart" cached, a publish for "file:///A.dart" was written with nothing added.
C10_Witness ==
    \E i \in 1..Len(lookups) :
        /\ "/a.dart" \in DOMAIN lookups[i].seen
        /\ LookupIn(lookups[i]).uri = "file:///A.dart"
        /\ \E p \in Positions(clientStdout, lookups[i].id) :
              OutDiags(p) = LookupIn(lookups[i]).diags


\* Every decoded message was sent on the channel: it is queued or was received, the
\* only exception being the message whose send() failed because run() had returned.
Accounted(decoded, q, taken, reader) ==
    \A i \in 1..Len(decoded) :
        \/ \E j \in 1..Len(q) : q[j].id = i
        \/ \E k \in 1..Len(taken) : taken[k] = i
        \/ i = Len(decoded) /\ reader = "send_failed"
\* Every received message was handled to its end by the loop: written, held across the
\* lock await, dropped as unparseable client input, or its write ended run().
Processed ==
    /\ \A k \in 1..Len(clientTaken) :
          \/ Positions(childStdin, clientTaken[k]) # {}
          \/ ~FromStrOk(clientDecoded[clientTaken[k]])
          \/ k = Len(clientTaken) /\ result = "err"
    /\ \A k \in 1..Len(serverTaken) :
          \/ Positions(clientStdout, serverTaken[k]) # {}
          \/ ServerHeld(serverTaken[k])
          \/ k = Len(serverTaken) /\ result = "err"
C11_State ==
    /\ (clientReader = "send_failed" \/ serverReader = "send_failed") => runPc = "returned"
    /\ (runPc = "returned" /\ result = "ok")
          => (ReaderGone(clientReader) /\ ReaderGone(serverReader))
    /\ Accounted(clientDecoded, clientQ, clientTaken, clientReader)
    /\ Accounted(serverDecoded, serverQ, serverTaken, serverReader)
    /\ Processed
C11_Step ==
    /\ (clientReader = "running" /\ clientReader' = "exited")
          => UNCHANGED << runPc, result, procVars, serverReader, serverDecoded, serverQ,
                          clientQ, serverTaken, clientTaken, cur, childStdin, clientStdout >>
    /\ (serverReader = "running" /\ serverReader' = "exited")
          => UNCHANGED << runPc, result, procVars, clientReader, clientDecoded, clientQ,
                          serverQ, serverTaken, clientTaken, cur, childStdin, clientStdout >>
    /\ (RunScopeAlive /\ clientReader # "running" /\ serverDecoded' # serverDecoded)
          => serverQ' = Append(serverQ, Entry(Len(serverDecoded') , serverDecoded'[Len(serverDecoded')]))
    /\ (RunScopeAlive /\ serverReader # "running" /\ clientDecoded' # clientDecoded)
          => clientQ' = Append(clientQ, Entry(Len(clientDecoded'), clientDecoded'[Len(clientDecoded')]))
\* C11: the exit of one reader (decode error or end of stream) changes nothing but that
\* reader: run() goes on, what the other reader decodes afterwards is still sent on its
\* channel, received and handled by the loop as before, and run() does not return for it.
C11_ReaderStopsAlone == []C11_State /\ [][C11_Step]_vars
\* The client reader stopped before it decoded anything, and two server messages were
\* forwarded by a loop that is still running.
C11_Witness ==
    /\ clientReader = "exited"
    /\ clientDecoded = <<>>
    /\ serverReader = "running"
    /\ Len(clientStdout) = 2
    /\ runPc = "loop"


\* What the cache holds for a path, and the part of it one rule produced.
CacheEntry(path) == IF path \in DOMAIN cache THEN cache[path] ELSE <<>>
ByRule(ds, rule) == SelectSeq(ds, LAMBDA d : d.rule_id = rule)
\* What one rule returned for one file: its diagnostics, none when check() failed.
Returned(rule, file) ==
    LET r == RuleCheck(rule, file.path, file.content)
    IN IF r.ok THEN r.diags ELSE <<>>
RuleFails(file) == \E k \in 1..Len(Rules) : ~RuleCheck(Rules[k], file.path, file.content).ok
\* C12: for every file the scan has been through and every rule, the cache holds for
\* that file exactly what the rule returned, nothing when the rule failed; a failing
\* rule stops neither the file nor the scan, and the scan fails only in the enumeration.
C12_RuleFailureTolerance ==
    /\ scanPc \in {"rules", "done"}
          => \A i \in 1..(scanIdx - 1) : \A k \in 1..Len(Rules) :
                ByRule(CacheEntry(files[i].path), Rules[k]) = Returned(Rules[k], files[i])
    /\ scanPc = "done" => scanIdx = Len(files) + 1
    /\ scanPc = "failed" => ~FindDartFiles(disk).ok
\* A completed scan whose first file has a failing rule and diagnostics of the other
\* rule in the cache, and whose second file has diagnostics of both rules.
C12_Witness ==
    /\ scanPc = "done"
    /\ Len(files) = 2
    /\ RuleFails(files[1])
    /\ CacheEntry(files[1].path) # <<>>
    /\ files[2].content = "violating"
    /\ Len(CacheEntry(files[2].path)) = 3


ScanEnded == scanPc \in {"done", "failed"}
HasUnreadable(d) == \E i \in 1..Len(d) : ~LoadOk(d[i])
\* C13: when the scan has ended and one file under the root could not be read, the
\* cache holds, for every file that could be read, what each rule returned for it.
C13_UnreadableFileTolerance ==
    (ScanEnded /\ HasUnreadable(disk))
    => \A i \in 1..Len(disk) :
          LoadOk(disk[i])
          => \A k \in 1..Len(Rules) :
                ByRule(CacheEntry(disk[i].path), Rules[k]) = Returned(Rules[k], disk[i])

\* C14: a write that fails does not end the session: run() has not returned an error
\* once the child was launched and the loop entered.
C14_WriteFailureKeepsLoop ==
    (runPc = "returned" /\ result = "err") => dart_process = "none"


\* C15: a dropped proxy never leaves a launched child running, whichever way run()
\* ended; a kill is sent by nothing but the drop of the proxy that holds the child, and
\* a proxy that never launched one (run() not called, failed spawn, a clone) sends none.
C15_KillOnRelease ==
    /\ dropped => dart_process # "running"
    /\ (dropped /\ clientReader # "unstarted") => dart_process = "killed"
    /\ (dropped /\ clientReader = "unstarted") => dart_process = "none"
    /\ dart_process = "killed" => dropped
\* run() returned an error from its loop after it had forwarded a message, and the
\* proxy was dropped.
C15_Witness ==
    /\ dropped
    /\ dart_process = "killed"
    /\ runPc = "returned"
    /\ result = "err"
    /\ Len(childStdin) = 1
\* A proxy whose run() failed to spawn was dropped.
C15_WitnessNoChild ==
    /\ dropped
    /\ dart_process = "none"
    /\ runPc = "returned"


\* run() was called and the child could not be launched.
SpawnFailed == runPc # "new" /\ dart_process = "none"
\* C16: after a failed spawn run() has returned an error, no reader thread was started,
\* no message was decoded, queued or written, no scan was dispatched, and the proxy
\* holds neither a child handle nor a stream endpoint.
C16_FailedSpawn ==
    SpawnFailed
    => /\ runPc = "returned"
       /\ result = "err"
       /\ clientReader = "unstarted"
       /\ serverReader = "unstarted"
       /\ clientDecoded = <<>> /\ serverDecoded = <<>>
       /\ clientQ = <<>> /\ serverQ = <<>>
       /\ clientTaken = <<>> /\ serverTaken = <<>>
       /\ childStdin = <<>> /\ clientStdout = <<>>
       /\ scanCount = 0 /\ scanPc = "idle"
       /\ dart_stdin = "none" /\ dart_stdout = "none"
\* run() has returned the spawn error and the proxy is still held.
C16_Witness ==
    /\ SpawnFailed
    /\ result = "err"
    /\ ~dropped


\* C17: the frames read from a stream that holds what write_message wrote for the
\* payloads p1..pn, and nothing else, are p1..pn, byte for byte and with their length
\* in bytes, and then the end of the stream, for payloads with multi-byte characters,
\* with blank lines inside and for the empty payload.
C17_FramerRoundTrip ==
    input = <<>>
    => /\ Len(frames) <= Len(sent) + 1
       /\ \A i \in 1..Len(frames) :
             IF i <= Len(sent)
             THEN /\ frames[i].kind = "msg"
                  /\ frames[i].content = sent[i]
                  /\ frames[i].content_length = Len(sent[i])
             ELSE frames[i].kind = "none"
       /\ framerPc = "end" => Len(frames) = Len(sent) + 1
\* The empty payload and a payload with a two-byte character and a blank line were
\* written and read back, and the reader met the end of the stream.
C17_Witness ==
    /\ framerPc = "end"
    /\ sent = << "", "x^~\n\ny" >>
    /\ Len(frames) = 3
    /\ frames[2].content_length = 6


\* What a stream built by hand says, read off the way it was built: the lines that
\* name the length, case aside, and the number a well-formed value stands for.
LengthLines(in) ==
    { i \in 1..Len(in.lines) : in.lines[i].name \in {"Content-Length", "content-length"} }
TheLengthLine(in) == in.lines[CHOOSE i \in LengthLines(in) : TRUE]
OneLengthHeader(in) ==
    /\ in.closing = "blank"
    /\ Cardinality(LengthLines(in)) = 1
    /\ TheLengthLine(in).name = "Content-Length"
Decimal(v) == CASE v = "0" -> 0 [] v = "2" -> 2 [] v = "5" -> 5 [] v = "12" -> 12
Decimals == { "0", "2", "5", "12" }
Declares(in) == OneLengthHeader(in) /\ TheLengthLine(in).value \in Decimals
Declared(in) == Decimal(TheLengthLine(in).value)
FirstRead == input # <<>> /\ frames # <<>>

\* C18: when the one length header of a closed header block declares N and fewer than
\* N bytes follow before the stream ends, read_message returns an error; a message it
\* returns for a declared N has N bytes of payload.
C18_Truncation ==
    (FirstRead /\ Declares(input[1]))
    => /\ Len(input[1].body) < Declared(input[1]) => frames[1].kind = "err"
       /\ frames[1].kind = "msg" => Len(frames[1].content) = Declared(input[1])
\* Five bytes were declared, two were there, and the read gave an error.
C18_Witness ==
    /\ FirstRead
    /\ Declares(input[1])
    /\ Declared(input[1]) = 5
    /\ input[1].body = "ab"
    /\ frames[1].kind = "err"

\* C19: read_message returns None only when the stream was at its end as the call
\* began, no byte of a header having been read.
C19_OrderlyClose ==
    \A i \in 1..Len(frames) : frames[i].kind = "none" => frames[i].before = ""

\* The header block is closed and names no length, or its one length header has a
\* value that is negative, empty or not a number.
BadValues == { "-1", "", "x" }
MustFail(in) ==
    /\ in.closing = "blank"
    /\ \/ LengthLines(in) = {}
       \/ OneLengthHeader(in) /\ TheLengthLine(in).value \in BadValues
C20_WitnessAbsent ==
    /\ FirstRead
    /\ Len(input[1].lines) = 1
    /\ input[1].lines[1].name = "Content-Type"
    /\ input[1].closing = "blank"
    /\ frames[1].kind = "err"


\* The enumerated files for which some rule returned one diagnostic or more.
WithDiagnostics(fs) ==
    { i \in 1..Len(fs) : \E k \in 1..Len(Rules) : Returned(Rules[k], fs[i]) # <<>> }
\* C21: when the scan has completed, the keys of the cache are exactly the paths of the
\* enumerated files for which some rule returned diagnostics, and no key maps to an
\* empty list; nothing else, from before the scan or from a clean file, is in it.
C21_SparseScanResult ==
    scanPc = "done"
    => /\ DOMAIN cache = { files[i].path : i \in WithDiagnostics(files) }
       /\ \A p \in DOMAIN cache : cache[p] # <<>>
\* A root with one violating file and one clean file gave one entry, keyed by the
\* path of the violating file.
C21_Witness ==
    /\ scanPc = "done"
    /\ Len(files) = 2
    /\ files[1].content = "violating"
    /\ files[2].content = "clean"
    /\ DOMAIN cache = { files[1].path }


\* Every client message written to the child is the decoded text itself, and the scan
\* was dispatched only if a server-origin "initialized" was handled.
ClientForwardedUnchanged ==
    /\ \A i \in 1..Len(childStdin) : childStdin[i].content = clientDecoded[childStdin[i].id]
    /\ scanCount >= 1 => InitializedHandled >= 1
    /\ Len(lookups) <= Len(serverTaken)
\* Every server message that parses and is no publishDiagnostics is written to the
\* client as the text that was decoded.
ServerForwardedUnchanged ==
    \A i \in 1..Len(clientStdout) :
        LET in == serverDecoded[clientStdout[i].id]
        IN (FromStrOk(in) /\ FromStr(in).method # MPublish) => clientStdout[i].content = in
\* C22: the messages the proxy does not intercept are forwarded with their payload
\* unchanged: server messages that parse and are no publishDiagnostics, and every client
\* message that parses; a client message never dispatches the scan nor is merged.
C22_ForwardedUnchanged ==
    /\ ClientForwardedUnchanged
    /\ ServerForwardedUnchanged


Queued(q, id) == \E j \in 1..Len(q) : q[j].id = id
\* A queued client message has been handled as the client branch handles it: written
\* to the child, or dropped because it does not parse.
ClientDelivered(id) ==
    \/ Positions(childStdin, id) # {}
    \/ (\E k \in 1..Len(clientTaken) : clientTaken[k] = id) /\ ~FromStrOk(clientDecoded[id])
ServerDelivered(id) == Positions(clientStdout, id) # {}
RunFailed == result = "err"
Stated(params, key) ==
    { params.items[i].value.s :
        i \in { j \in 1..Len(params.items) :
                  params.items[j].key = key /\ params.items[j].value.t = "string" } }
SeverityNames == [Error |-> "error", Warning |-> "warning", Info |-> "info"]
CategoryNames == [Style |-> "style", Runtime |-> "runtime"]
Satisfies(d, params) ==
    /\ \A c \in Stated(params, "category") : CategoryNames[d.category] = c
    /\ \A s \in Stated(params, "severity") : SeverityNames[d.severity] = s
    /\ \A f \in Stated(params, "file") : Contains(d.file, f)
\* out is stored without the elements that are not kept, in the order of stored.
Sublist(out, stored, kept) ==
    /\ Len(out) = Cardinality(kept)
    /\ \A i \in kept : out[Cardinality({ j \in kept : j <= i })] = stored[i]
IsQueryAnswer(a) == a.request.method = "get_errors" /\ a.request.params \in QueryParams
C24_State ==
    \A n \in 1..Len(answers) :
        IsQueryAnswer(answers[n])
        => /\ answers[n].response.success
           /\ answers[n].response.error = <<>>
           /\ Sublist(answers[n].response.diagnostics, answers[n].stored,
                      { i \in 1..Len(answers[n].stored) :
                          Satisfies(answers[n].stored[i], answers[n].request.params) })
C24_Step == answers' # answers => store' = store
\* C24: a get_errors request with a query object is answered with exactly the stored
\* diagnostics, in stored order, that satisfy every filter the query states (category
\* name, severity name, substring of the file path), all of them when it states none,
\* and answering leaves the store as it was.
C24_QueryFiltering == []C24_State /\ [][C24_Step]_vars
\* A query with the three filters kept the second of two stored diagnostics, which
\* share the severity and the directory and differ in category.
C24_Witness ==
    /\ Len(answers) = 1
    /\ IsQueryAnswer(answers[1])
    /\ Len(answers[1].stored) = 2
    /\ answers[1].stored[1].rule_id = "rule1"
    /\ answers[1].stored[2].rule_id = "rule3"
    /\ Cardinality(Stated(answers[1].request.params, "category")) = 1
    /\ Cardinality(Stated(answers[1].request.params, "severity")) = 1
    /\ Cardinality(Stated(answers[1].request.params, "file")) = 1
    /\ Len(answers[1].response.diagnostics) = 1
    /\ answers[1].response.diagnostics[1].rule_id = "rule3"

Failed(a, text) ==
    /\ ~a.response.success
    /\ a.response.error # <<>>
    /\ Contains(a.response.error[1], text)
KnownMethods == {"get_all_errors", "get_errors", "get_stats"}
\* C25: a request with an unknown method is answered success=false with "Unknown
\* method", a get_errors request whose params are not a query object success=false with
\* "Invalid query parameters", and a get_all_errors request still gets the whole store.
C25_ErrorResponses ==
    \A n \in 1..Len(answers) :
        /\ answers[n].request.method \notin KnownMethods
              => Failed(answers[n], "Unknown method")
        /\ (answers[n].request.method = "get_errors" /\ answers[n].request.params.t # "object")
              => Failed(answers[n], "Invalid query parameters")
        /\ answers[n].request.method = "get_all_errors"
              => answers[n].response.diagnostics = answers[n].stored
\* Params that are a scalar, an array of another length than the three fields, or an
\* object with a field that is neither a string nor null.
Malformed(params) ==
    \/ params.t \notin {"object", "array"}
    \/ params.t = "array" /\ Len(params.items) # 3
    \/ params.t = "object"
          /\ \E i \in 1..Len(params.items) : params.items[i].value.t \notin {"string", "null"}
\* The same for the params that are malformed.
C25_HoldsForMalformed ==
    \A n \in 1..Len(answers) :
        /\ answers[n].request.method \notin KnownMethods
              => Failed(answers[n], "Unknown method")
        /\ (answers[n].request.method = "get_errors" /\ Malformed(answers[n].request.params))
              => Failed(answers[n], "Invalid query parameters")
        /\ answers[n].request.method = "get_all_errors"
              => answers[n].response.diagnostics = answers[n].stored


\* The values of the cache a lock holder other than the scan can find.
Settled(map) == map = EmptyMap \/ (scanPc = "done" /\ map = ScanResult(files))
C26_State ==
    /\ scanPc \in {"idle", "spawned", "lock", "failed"} => cache = EmptyMap
    /\ lockHolder = "none" => Settled(cache)
    /\ \A n \in 1..Len(lookups) :
          /\ Settled(lookups[n].seen)
          /\ \A k \in 1..(n - 1) :
                lookups[k].seen # EmptyMap => lookups[n].seen = lookups[k].seen
C26_Step ==
    /\ cache' # cache =>
          /\ scanPc = "rules" /\ lockHolder = "scan" /\ lockHolder' = "scan"
          /\ UNCHANGED << runPc, result, initialized, cur, lookups, clientQ, serverQ,
                          clientTaken, serverTaken, childStdin, clientStdout >>
    /\ scanPc = "done" => cache' = cache /\ scanPc' = "done"
\* C26: the cache is empty from construction until the scan; its contents change only
\* in steps of the scan, taken while the scan holds the lock, and never in a step of
\* the coordinating loop; once the scan has ended the cache never changes again, so
\* whoever takes the lock finds the empty cache or the scan's result, and never the
\* empty cache after the result: one change in a session.
C26_CacheWriters == []C26_State /\ [][C26_Step]_vars
\* The scan has replaced the contents of two paths, and the loop then looked the cache up.
C26_Witness ==
    /\ scanPc = "done"
    /\ Cardinality(DOMAIN cache) = 2
    /\ Len(lookups) = 1
    /\ lookups[1].seen = cache


\* C27: once the proxy is dropped, no child it launched is left running: none is
\* held unkilled and none had its handle dropped without a kill.
C27_NoLeakedChild == dropped => (dart_process # "running" /\ orphans = 0)
\* The part that holds: the child the proxy holds when it is dropped is killed.
C27_HeldChildKilled == dropped => dart_process # "running"


\* The loop awaits the cache lock for a publish message.
LoopAwaitsLock == runPc = "inject"
\* C28: every wait of the coordinating loop for the cache lock ends with the lock
\* granted, the scan gives back the lock it took, and the lock is free whenever the
\* scan is not between its clear() and its end and the loop is outside its lookup,
\* whether the scan succeeded, failed or was never started, and whether the lookup
\* hit or missed.
C28_NoLockDeadlock ==
    /\ LoopAwaitsLock ~> ~LoopAwaitsLock
    /\ (lockHolder = "scan") ~> (lockHolder = "none")
    /\ [](scanPc # "rules" => lockHolder = "none")
    /\ [][LoopAwaitsLock /\ ~LoopAwaitsLock' => lockHolder = "none" /\ lockHolder' = "none"]_vars
\* The loop waits for the lock while the scan holds it, with a file still to analyse.
C28_Witness ==
    /\ LoopAwaitsLock
    /\ lockHolder = "scan"
    /\ scanIdx <= Len(files)
\* The loop was granted the lock after the scan, and the lookup missed.
C28_WitnessMiss ==
    /\ scanPc = "done"
    /\ Len(lookups) = 1
    /\ StripFileScheme(FromStr(serverDecoded[lookups[1].id]).uri) \notin DOMAIN lookups[1].seen
    /\ lockHolder = "none"


\* The scan has enumerated a root with an entry that cannot be loaded.
EnumerationFailed == scanPc \notin {"idle", "spawned"} /\ HasUnreadable(disk)
C29_State ==
    EnumerationFailed
    => /\ scanPc = "failed"
       /\ lockHolder = "none"
       /\ cache = EmptyMap
       /\ files = <<>>
       /\ initialized
       /\ scanCount = 1
       /\ \A n \in 1..Len(lookups) : lookups[n].seen = EmptyMap /\ ~lookups[n].midScan
C29_Step ==
    /\ (~EnumerationFailed /\ EnumerationFailed')
          => UNCHANGED << cache, lockHolder, initialized, scanCount, runPc, result, cur,
                          clientQ, serverQ, clientTaken, serverTaken, childStdin,
                          clientStdout >>
    /\ EnumerationFailed => EnumerationFailed' /\ cache' = cache /\ lockHolder' = lockHolder
\* C29: when the enumeration of the files fails the scan ends there: it never takes
\* the cache lock, the cache keeps the contents it had, then and afterwards, the
\* failing step changes nothing of the coordinating loop, which goes on handling
\* messages, and the flag stays set, so no second scan is started.
C29_FailedScan == []C29_State /\ [][C29_Step]_vars
\* The scan failed in a session whose loop is still running and has handled a second
\* initialized notification and forwarded a message of the client.
C29_Witness ==
    /\ EnumerationFailed
    /\ runPc = "loop"
    /\ Len(serverTaken) = 2
    /\ \A n \in 1..2 : FromStr(serverDecoded[n]).method = MInitialized
    /\ Len(clientStdout) = 2
    /\ Len(childStdin) = 1


\* The 0-indexed position of a 1-indexed one, 0 staying 0.
ZeroIndexed(n) == IF n = 0 THEN 0 ELSE n - 1
\* C30: the range pushed for a cached diagnostic starts at the 0-indexed line and
\* column, both non-negative and 0 for a line or a column of 0, ends on the same line
\* one character further, and two diagnostics with the same line and column get the
\* same range whatever their end_line and end_column.
C30_RangeShape ==
    \A j \in 1..Len(pushed) :
        LET location == our_diagnostics[j].location
            range == pushed[j].range
        IN /\ range.start.line >= 0
           /\ range.start.character >= 0
           /\ range.start.line = ZeroIndexed(location.line)
           /\ range.start.character = ZeroIndexed(location.column)
           /\ range.end.line = range.start.line
           /\ range.end.character = range.start.character + 1
           /\ \A k \in 1..Len(pushed) :
                 (/\ our_diagnostics[k].location.line = location.line
                  /\ our_diagnostics[k].location.column = location.column)
                 => pushed[k].range = range
\* Two diagnostics at line 0, column 0 were converted, one with an end position and
\* one without.
C30_Witness ==
    /\ Len(pushed) = 2
    /\ \A j \in 1..2 : our_diagnostics[j].location.line = 0
                        /\ our_diagnostics[j].location.column = 0
    /\ our_diagnostics[1].location.end_line = <<>>
    /\ our_diagnostics[1].location.end_column = <<>>
    /\ our_diagnostics[2].location.end_line = << MaxLine + 1 >>
    /\ our_diagnostics[2].location.end_column = << MaxColumn + 1 >>

====
